---- MODULE Spec2Model ----
(***************************************************************************)
(* librustc_mir/borrow_check/nll/type_check/escaping_locals.rs             *)
(*                                                                         *)
(* A MIR walk gathering a union-find of assigned locals, for the purpose   *)
(* of locating the ones escaping into the output (local 0, the return      *)
(* place).  The MIR is the input: it is drawn in Init and only read        *)
(* afterwards.  One run of find_escaping_locals is: allocate one key per   *)
(* local declaration, visit every statement of every block in order, then  *)
(* test every local but 0 against the return place.                        *)
(***************************************************************************)
EXTENDS Integers, Sequences, FiniteSets, TLC

VARIABLES
    mir,                \* the procedure: [local_decls, basic_blocks]
    pc,                 \* "keys", "walk", "query", "done", "panic"
    unification_table,  \* visitor.unification_table: key k is entry k + 1
    visited,            \* number of statements super_mir has visited
    local,              \* loop variable of the query loop
    escaping_locals     \* the Vec<Local> being built

vars == <<mir, pc, unification_table, visited, local, escaping_locals>>

(***************************************************************************)
(* Bounds of the model.                                                    *)
(***************************************************************************)
MaxLocals == 4      \* local declarations of a procedure, return place included
MaxStmts == 3       \* statements of a procedure of plain moves
BlockLocals == 3    \* local declarations of a procedure whose statements are reordered
BlockStmts == 3     \* statements of a procedure whose statements are reordered
MaxProj == 2        \* depth of a projection chain
MaxOps == 3         \* element operands of an aggregate

(***************************************************************************)
(* Option<Local>: a local index, or None.                                  *)
(***************************************************************************)
None == -1

(***************************************************************************)
(* MIR data: places, operands, rvalues, statements.                        *)
(***************************************************************************)
PlaceLocal(l) == [tag |-> "Local", local |-> l]
PlaceStatic == [tag |-> "Static"]
PlaceProjection(base) == [tag |-> "Projection", base |-> base]

OperandMove(place) == [tag |-> "Move", place |-> place]
OperandCopy(place) == [tag |-> "Copy", place |-> place]
OperandConstant == [tag |-> "Constant"]

RvalueUse(op) == [tag |-> "Use", op |-> op]
RvalueRef(kind, place) == [tag |-> "Ref", kind |-> kind, place |-> place]
RvalueCast(kind, op) == [tag |-> "Cast", kind |-> kind, op |-> op]
RvalueAggregate(ops) == [tag |-> "Aggregate", ops |-> ops]
RvalueUnaryOp(op) == [tag |-> "UnaryOp", op |-> op]
RvalueDiscriminant(place) == [tag |-> "Discriminant", place |-> place]

CastKinds == {"Misc", "ReifyFnPointer", "ClosureFnPointer", "UnsafeFnPointer", "Unsize"}
BorrowKinds == {"Shared", "Mut"}

StatementAssign(place, rvalue) == [kind |-> "Assign", place |-> place, rvalue |-> rvalue]
StatementNop == [kind |-> "Nop"]

(***************************************************************************)
(* The union-find (ut::UnificationTable<InPlace<AssignedLocal>>): an       *)
(* array of [parent, rank], union by rank, path compression on every find. *)
(***************************************************************************)
Keys(table) == 0 .. (Len(table) - 1)

new_key(table) == Append(table, [parent |-> Len(table), rank |-> 0])

RECURSIVE root_of(_, _)
root_of(table, key) ==
    IF table[key + 1].parent = key THEN key
    ELSE root_of(table, table[key + 1].parent)

RECURSIVE path_of(_, _)
path_of(table, key) ==
    IF table[key + 1].parent = key THEN {}
    ELSE {key} \cup path_of(table, table[key + 1].parent)

\* the table after get_root_key(key): every key on the path points at the root
get_root_key(table, key) ==
    LET root == root_of(table, key)
        path == path_of(table, key)
    IN  [i \in 1 .. Len(table) |->
            IF (i - 1) \in path THEN [table[i] EXCEPT !.parent = root] ELSE table[i]]

redirect_root(table, new_rank, old_root, new_root) ==
    [table EXCEPT ![old_root + 1].parent = new_root,
                  ![new_root + 1].rank = new_rank]

union(table, a, b) ==
    LET t1 == get_root_key(table, a)
        t2 == get_root_key(t1, b)
        root_a == root_of(table, a)
        root_b == root_of(table, b)
        rank_a == t2[root_a + 1].rank
        rank_b == t2[root_b + 1].rank
    IN  IF root_a = root_b THEN t2
        ELSE IF rank_a > rank_b THEN redirect_root(t2, rank_a, root_b, root_a)
        ELSE IF rank_a < rank_b THEN redirect_root(t2, rank_b, root_a, root_b)
        ELSE redirect_root(t2, rank_a + 1, root_a, root_b)

unioned(table, a, b) == root_of(table, a) = root_of(table, b)

\* the table after unioned(a, b): both finds compress their paths
unioned_table(table, a, b) == get_root_key(get_root_key(table, a), b)

(***************************************************************************)
(* impl From<Local> for AssignedLocal: the index, unchanged.  Its          *)
(* assertion, index < u32::MAX, holds of every index of the model.         *)
(***************************************************************************)
AssignedLocal_from(item) == item

(***************************************************************************)
(* The classifier.                                                         *)
(***************************************************************************)
RECURSIVE find_local_in_place(_)

\* slip: only a bare local is resolved, a projection is not followed to its base
find_local_in_place_no_projection(place) ==
    CASE place.tag = "Local" -> place.local
      [] OTHER -> None

\* slip: a place rooted in no local is taken for the return place
find_local_in_place_default_return(place) ==
    CASE place.tag = "Local" -> place.local
      [] place.tag = "Projection" -> find_local_in_place(place.base)
      [] OTHER -> 0

find_local_in_place(place) ==
    CASE place.tag = "Local" -> place.local
      [] place.tag = "Projection" -> find_local_in_place(place.base)
      [] OTHER -> None

\* slip: a copy is tracked like a move
find_local_in_operand_copy_too(op) ==
    CASE op.tag = "Move" -> find_local_in_place(op.place)
      [] op.tag = "Copy" -> find_local_in_place(op.place)
      [] OTHER -> None

find_local_in_operand(op) ==
    CASE op.tag = "Move" -> find_local_in_place(op.place)
      [] OTHER -> None

\* slip: only assignments straight into the return place are recorded
union_only_into_return_place(table, lvalue, rvalue) ==
    IF lvalue = 0 /\ rvalue # None /\ lvalue # rvalue
    THEN union(table, AssignedLocal_from(lvalue), AssignedLocal_from(rvalue))
    ELSE table

\* slip: the source key itself, not its root, is redirected to the destination's root
union_without_find(table, lvalue, rvalue) ==
    IF lvalue # None /\ rvalue # None /\ lvalue # rvalue
    THEN [table EXCEPT ![AssignedLocal_from(rvalue) + 1].parent =
                           root_of(table, AssignedLocal_from(lvalue))]
    ELSE table

\* slip: a destination already known to reach the return place is skipped
union_unless_escaping(table, lvalue, rvalue) ==
    IF lvalue # None /\ rvalue # None /\ lvalue # rvalue
       /\ ~(lvalue # 0 /\ unioned(table, 0, AssignedLocal_from(lvalue)))
    THEN union(table, AssignedLocal_from(lvalue), AssignedLocal_from(rvalue))
    ELSE table

union_locals_if_needed(table, lvalue, rvalue) ==
    IF lvalue # None
    THEN IF rvalue # None
         THEN IF lvalue # rvalue
              THEN union(table, AssignedLocal_from(lvalue), AssignedLocal_from(rvalue))
              ELSE table
         ELSE table
    ELSE table

RECURSIVE union_each(_, _, _)

\* slip: the loop ends at the first element that resolves to no local
union_each_until_none(table, lvalue, rvalues) ==
    IF rvalues = <<>> \/ Head(rvalues) = None THEN table
    ELSE union_each(union_locals_if_needed(table, lvalue, Head(rvalues)),
                    lvalue, Tail(rvalues))

\* `for rvalue in ops.iter().map(find_local_in_operand)`
union_each(table, lvalue, rvalues) ==
    IF rvalues = <<>> THEN table
    ELSE union_each(union_locals_if_needed(table, lvalue, Head(rvalues)),
                    lvalue, Tail(rvalues))

\* slip: every cast is tracked, whatever its kind
visit_assign_any_cast(table, place, rvalue) ==
    LET lv == find_local_in_place(place) IN
    CASE rvalue.tag = "Use" ->
            union_locals_if_needed(table, lv, find_local_in_operand(rvalue.op))
      [] rvalue.tag = "Ref" ->
            union_locals_if_needed(table, lv, find_local_in_place(rvalue.place))
      [] rvalue.tag = "Cast" ->
            union_locals_if_needed(table, lv, find_local_in_operand(rvalue.op))
      [] rvalue.tag = "Aggregate" ->
            union_each(table, lv,
                       [i \in 1 .. Len(rvalue.ops) |-> find_local_in_operand(rvalue.ops[i])])
      [] OTHER -> table

\* the table after visit_assign(block, place, rvalue, location)
visit_assign(table, place, rvalue) ==
    LET lv == find_local_in_place(place) IN
    CASE rvalue.tag = "Use" ->
            union_locals_if_needed(table, lv, find_local_in_operand(rvalue.op))
      [] rvalue.tag = "Ref" ->
            union_locals_if_needed(table, lv, find_local_in_place(rvalue.place))
      [] rvalue.tag = "Cast" ->
            IF rvalue.kind = "Unsize"
            THEN union_locals_if_needed(table, lv, find_local_in_operand(rvalue.op))
            ELSE table
      [] rvalue.tag = "Aggregate" ->
            union_each(table, lv,
                       [i \in 1 .. Len(rvalue.ops) |-> find_local_in_operand(rvalue.ops[i])])
      [] OTHER -> table

\* the locals visit_assign hands to the union-find as keys
RvalueLocals(rvalue) ==
    CASE rvalue.tag = "Use" -> {find_local_in_operand(rvalue.op)}
      [] rvalue.tag = "Ref" -> {find_local_in_place(rvalue.place)}
      [] rvalue.tag = "Cast" ->
            IF rvalue.kind = "Unsize" THEN {find_local_in_operand(rvalue.op)} ELSE {}
      [] rvalue.tag = "Aggregate" ->
            {find_local_in_operand(rvalue.ops[i]) : i \in 1 .. Len(rvalue.ops)}
      [] OTHER -> {}

\* visit_assign aborts: a key out of the table's range
visit_assign_panics(table, place, rvalue) ==
    LET lv == find_local_in_place(place) IN
    /\ lv # None
    /\ \E rv \in RvalueLocals(rvalue) \ {None, lv} :
          \/ AssignedLocal_from(lv) >= Len(table)
          \/ AssignedLocal_from(rv) >= Len(table)

(***************************************************************************)
(* super_mir: the statements in visiting order, block after block.         *)
(***************************************************************************)
RECURSIVE super_mir(_)
super_mir(basic_blocks) ==
    IF basic_blocks = <<>> THEN <<>>
    ELSE Head(basic_blocks) \o super_mir(Tail(basic_blocks))

Statements == super_mir(mir.basic_blocks)

\* the table after the statements were visited in order
RECURSIVE visit_statements(_, _)
visit_statements(table, stmts) ==
    IF stmts = <<>> THEN table
    ELSE visit_statements(
             IF Head(stmts).kind = "Assign"
             THEN visit_assign(table, Head(stmts).place, Head(stmts).rvalue)
             ELSE table,
             Tail(stmts))

RECURSIVE new_keys(_, _)
new_keys(table, n) == IF n = 0 THEN table ELSE new_keys(new_key(table), n - 1)

\* the table after visitor.visit_mir(m)
visit_mir(m) == visit_statements(new_keys(<<>>, m.local_decls), super_mir(m.basic_blocks))

\* m.find_escaping_locals()
find_escaping_locals(m) ==
    LET table == visit_mir(m)
        keep(l) == unioned(table, 0, AssignedLocal_from(l))
    IN  SelectSeq([l \in 1 .. (m.local_decls - 1) |-> l], keep)

(***************************************************************************)
(* The procedures the model runs on.                                       *)
(***************************************************************************)
Locals(n) == 0 .. (n - 1)

RECURSIVE Places(_, _)
Places(n, depth) ==
    IF depth = 0 THEN {PlaceLocal(l) : l \in Locals(n)} \cup {PlaceStatic}
    ELSE Places(n, depth - 1) \cup {PlaceProjection(p) : p \in Places(n, depth - 1)}

Operands(places) ==
    {OperandMove(p) : p \in places} \cup {OperandCopy(p) : p \in places} \cup {OperandConstant}

RECURSIVE SeqsUpTo(_, _)
SeqsUpTo(S, k) ==
    IF k = 0 THEN {<<>>}
    ELSE SeqsUpTo(S, k - 1) \cup
         {Append(q, s) : q \in {r \in SeqsUpTo(S, k - 1) : Len(r) = k - 1}, s \in S}

\* plain moves between two distinct locals, and a statement that is no assignment
MoveStmts(n) ==
    {StatementAssign(PlaceLocal(ds[1]), RvalueUse(OperandMove(PlaceLocal(ds[2])))) :
        ds \in {p \in Locals(n) \X Locals(n) : p[1] # p[2]}}

\* a statement list cut into blocks of two statements
RECURSIVE BlocksOfTwo(_)
BlocksOfTwo(flat) ==
    IF Len(flat) <= 2 THEN <<flat>>
    ELSE <<SubSeq(flat, 1, 2)>> \o BlocksOfTwo(SubSeq(flat, 3, Len(flat)))

\* a statement list as one block, or as one block per statement after an empty block
Arrangements(flat) ==
    {<<flat>>, <<<<>>>> \o [i \in 1 .. Len(flat) |-> <<flat[i]>>]}

Procedure(n, blocks) == [local_decls |-> n, basic_blocks |-> blocks]

\* procedures of plain moves: up to MaxStmts statements, in blocks of two
IsMoveProcedure(m) ==
    \E n \in 1 .. MaxLocals :
        \E f \in SeqsUpTo(MoveStmts(n) \cup {StatementNop}, MaxStmts) :
            m = Procedure(n, BlocksOfTwo(f))

\* procedures of plain moves: up to BlockStmts statements, in either arrangement
IsBlockProcedure(m) ==
    \E n \in 1 .. BlockLocals :
        \E f \in SeqsUpTo(MoveStmts(n) \cup {StatementNop}, BlockStmts) :
            \E b \in Arrangements(f) : m = Procedure(n, b)

\* statements of one expression form, over every destination and operand
UseStmts(n) ==
    {StatementAssign(d, RvalueUse(op)) :
        d \in Places(n, MaxProj), op \in Operands(Places(n, MaxProj))}

RefStmts(n) ==
    {StatementAssign(d, RvalueRef(k, p)) :
        d \in Places(n, MaxProj), k \in BorrowKinds, p \in Places(n, MaxProj)}

\* casts of every kind, and two of the forms visit_assign has no arm for
CastStmts(n) ==
    {StatementAssign(d, RvalueCast(k, op)) :
        d \in Places(n, 0), k \in CastKinds, op \in Operands(Places(n, MaxProj))}
    \cup {StatementAssign(d, RvalueUnaryOp(op)) :
        d \in Places(n, 0), op \in Operands(Places(n, MaxProj))}
    \cup {StatementAssign(d, RvalueDiscriminant(p)) :
        d \in Places(n, 0), p \in Places(n, MaxProj)}

AggregateOperands(n) ==
    {OperandMove(p) : p \in Places(n, 0)} \cup
    {OperandCopy(PlaceLocal(l)) : l \in Locals(n)} \cup {OperandConstant}

AggregateStmts(n) ==
    {StatementAssign(d, RvalueAggregate(ops)) :
        d \in Places(n, 0), ops \in SeqsUpTo(AggregateOperands(n), MaxOps)}

\* nothing, or one statement of MoveStmts, or one that is no assignment
MovePrefixes(n) == {<<>>, <<StatementNop>>} \cup {<<m>> : m \in MoveStmts(n)}

\* nothing, or one statement that is no assignment, or a move into the return place
ReturnPrefixes(n) ==
    {<<>>, <<StatementNop>>} \cup
    {<<StatementAssign(PlaceLocal(0), RvalueUse(OperandMove(PlaceLocal(s))))>> :
        s \in Locals(n) \ {0}}

\* procedures of one block: a prefix, then at most one statement of the form
IsFormProcedure(m, n, prefixes, forms) ==
    \E p \in prefixes :
        \E q \in {<<>>} \cup {<<r>> : r \in forms} : m = Procedure(n, <<p \o q>>)

(***************************************************************************)
(* The run.                                                                *)
(***************************************************************************)
\* after GatherAssignedLocalsVisitor::new() and Vec::new()
InitRun ==
    /\ pc = "keys"
    /\ unification_table = <<>>
    /\ visited = 0
    /\ local = 0
    /\ escaping_locals = <<>>

Init == IsMoveProcedure(mir) /\ InitRun

\* visit_mir, one iteration of `for _ in 0..mir.local_decls.len()`
NewKey ==
    /\ pc = "keys"
    /\ Len(unification_table) < mir.local_decls
    /\ unification_table' = new_key(unification_table)
    /\ UNCHANGED <<mir, pc, visited, local, escaping_locals>>

\* visit_mir, the loop is over: self.super_mir(mir) starts
SuperMir ==
    /\ pc = "keys"
    /\ Len(unification_table) = mir.local_decls
    /\ pc' = "walk"
    /\ UNCHANGED <<mir, unification_table, visited, local, escaping_locals>>

\* super_mir reaches an assignment: visit_assign
VisitAssign ==
    /\ pc = "walk"
    /\ visited < Len(Statements)
    /\ LET stmt == Statements[visited + 1] IN
       /\ stmt.kind = "Assign"
       /\ IF visit_assign_panics(unification_table, stmt.place, stmt.rvalue)
          THEN /\ pc' = "panic"
               /\ UNCHANGED unification_table
          ELSE /\ pc' = pc
               /\ unification_table' =
                      visit_assign(unification_table, stmt.place, stmt.rvalue)
    /\ visited' = visited + 1
    /\ UNCHANGED <<mir, local, escaping_locals>>

\* super_mir reaches a statement that is no assignment: nothing is overridden
VisitStatement ==
    /\ pc = "walk"
    /\ visited < Len(Statements)
    /\ Statements[visited + 1].kind # "Assign"
    /\ visited' = visited + 1
    /\ UNCHANGED <<mir, pc, unification_table, local, escaping_locals>>

\* super_mir returns: the query loop starts
StartQuery ==
    /\ pc = "walk"
    /\ visited = Len(Statements)
    /\ pc' = "query"
    /\ local' = 0
    /\ UNCHANGED <<mir, unification_table, visited, escaping_locals>>

return_place == 0

\* slip: the `continue` for local 0 is missing
QueryLocal_no_continue ==
    /\ pc = "query"
    /\ local < mir.local_decls
    /\ unification_table' =
           unioned_table(unification_table, return_place, AssignedLocal_from(local))
    /\ escaping_locals' =
           IF unioned(unification_table, return_place, AssignedLocal_from(local))
           THEN Append(escaping_locals, local)
           ELSE escaping_locals
    /\ local' = local + 1
    /\ UNCHANGED <<mir, pc, visited>>

\* one iteration of `for (local, _) in self.local_decls.iter_enumerated()`
QueryLocal ==
    /\ pc = "query"
    /\ local < mir.local_decls
    /\ IF local = 0
       THEN UNCHANGED <<unification_table, escaping_locals>>
       ELSE /\ unification_table' =
                   unioned_table(unification_table, return_place, AssignedLocal_from(local))
            /\ escaping_locals' =
                   IF unioned(unification_table, return_place, AssignedLocal_from(local))
                   THEN Append(escaping_locals, local)
                   ELSE escaping_locals
    /\ local' = local + 1
    /\ UNCHANGED <<mir, pc, visited>>

\* the loop is over: escaping_locals is returned
Return ==
    /\ pc = "query"
    /\ local = mir.local_decls
    /\ pc' = "done"
    /\ UNCHANGED <<mir, unification_table, visited, local, escaping_locals>>

Next ==
    \/ NewKey
    \/ SuperMir
    \/ VisitAssign
    \/ VisitStatement
    \/ StartQuery
    \/ QueryLocal
    \/ Return

Spec == Init /\ [][Next]_vars

\* the same run, on procedures whose blocks are arranged in two ways
InitBlocks == IsBlockProcedure(mir) /\ InitRun

SpecBlocks == InitBlocks /\ [][Next]_vars

\* the same run, on procedures built around one expression form
InitUse ==
    /\ \E n \in 1 .. MaxLocals : IsFormProcedure(mir, n, MovePrefixes(n), UseStmts(n))
    /\ InitRun

SpecUse == InitUse /\ [][Next]_vars

InitRef ==
    /\ \E n \in 1 .. MaxLocals : IsFormProcedure(mir, n, MovePrefixes(n), RefStmts(n))
    /\ InitRun

SpecRef == InitRef /\ [][Next]_vars

InitCast ==
    /\ \E n \in 1 .. MaxLocals : IsFormProcedure(mir, n, MovePrefixes(n), CastStmts(n))
    /\ InitRun

SpecCast == InitCast /\ [][Next]_vars

InitAggregate ==
    /\ \E n \in 1 .. MaxLocals : IsFormProcedure(mir, n, ReturnPrefixes(n), AggregateStmts(n))
    /\ InitRun

SpecAggregate == InitAggregate /\ [][Next]_vars

(***************************************************************************)
(* What the claims speak of, stated on the procedure alone: the slot a     *)
(* location is rooted in, the slots an expression takes its value from,    *)
(* and the (destination slot, source slot) pairs of the statements.        *)
(***************************************************************************)
Range(seq) == {seq[i] : i \in 1 .. Len(seq)}

RECURSIVE BaseSlot(_)
BaseSlot(loc) ==
    IF loc.tag = "Projection" THEN BaseSlot(loc.base)
    ELSE IF loc.tag = "Local" THEN {loc.local} ELSE {}

MovedSlot(operand) == IF operand.tag = "Move" THEN BaseSlot(operand.place) ELSE {}

FlowSources(expr) ==
    IF expr.tag = "Use" THEN MovedSlot(expr.op)
    ELSE IF expr.tag = "Ref" THEN BaseSlot(expr.place)
    ELSE IF expr.tag = "Cast" /\ expr.kind = "Unsize" THEN MovedSlot(expr.op)
    ELSE IF expr.tag = "Aggregate"
         THEN UNION {MovedSlot(expr.ops[i]) : i \in 1 .. Len(expr.ops)}
    ELSE {}

TrackedPairs(stmt) ==
    IF stmt.kind = "Assign" THEN BaseSlot(stmt.place) \X FlowSources(stmt.rvalue) ELSE {}

PairsOf(stmts) == UNION {TrackedPairs(stmts[i]) : i \in 1 .. Len(stmts)}

\* the slots joined to a slot of S by a chain of pairs, taken in either direction
RECURSIVE ConnectedTo(_, _)
ConnectedTo(S, pairs) ==
    LET T == S \cup {p[1] : p \in {q \in pairs : q[2] \in S}}
               \cup {p[2] : p \in {q \in pairs : q[1] \in S}}
    IN  IF T = S THEN S ELSE ConnectedTo(T, pairs)

\* the slots with a chain of pairs, each from source to destination, into a slot of S
RECURSIVE FlowsInto(_, _)
FlowsInto(S, pairs) ==
    LET T == S \cup {p[2] : p \in {q \in pairs : q[1] \in S}}
    IN  IF T = S THEN S ELSE FlowsInto(T, pairs)

Partition(table) == {{b \in Keys(table) : unioned(table, a, b)} : a \in Keys(table)}

MoveStmt(d, s) == StatementAssign(PlaceLocal(d), RvalueUse(OperandMove(PlaceLocal(s))))

MoveChain == <<MoveStmt(0, 1), MoveStmt(1, 2), MoveStmt(2, 3)>>

(***************************************************************************)
(* C1: find_escaping_locals returns exactly the slots s in 1..n-1 that     *)
(* share a union-find set with slot 0 after the walk, which are exactly    *)
(* the slots joined to slot 0 by a chain of tracked pairs; the move chain  *)
(* 0 = move 1; 1 = move 2; 2 = move 3 yields 1, 2, 3.                      *)
(***************************************************************************)
C1_ExactlyTheConnectedSlots ==
    pc = "done" =>
        /\ Range(escaping_locals) =
              {s \in 1 .. (mir.local_decls - 1) : unioned(unification_table, 0, s)}
        /\ Range(escaping_locals) = ConnectedTo({0}, PairsOf(Statements)) \ {0}
        /\ (Statements = MoveChain => escaping_locals = <<1, 2, 3>>)

C1_Witness ==
    /\ pc = "done"
    /\ Statements = MoveChain
    /\ escaping_locals = <<1, 2, 3>>

(***************************************************************************)
(* C2: every slot reported as escaping has a chain of tracked assignments, *)
(* each from source to destination, that ends in slot 0.                   *)
(***************************************************************************)
C2_OnlySlotsFlowingIntoReturn ==
    pc = "done" =>
        Range(escaping_locals) \subseteq FlowsInto({0}, PairsOf(Statements))

(***************************************************************************)
(* C3: the returned sequence never contains slot 0, contains no slot       *)
(* twice, and is strictly ascending.                                       *)
(***************************************************************************)
C3_AscendingWithoutReturnSlot ==
    /\ \A i \in 1 .. Len(escaping_locals) : escaping_locals[i] # 0
    /\ \A i \in 1 .. Len(escaping_locals) : \A j \in 1 .. Len(escaping_locals) :
          i < j => escaping_locals[i] < escaping_locals[j]

C3_Witness ==
    /\ pc = "done"
    /\ Len(escaping_locals) >= 2
    /\ Len(escaping_locals) < mir.local_decls - 1

(***************************************************************************)
(* C4: procedures with the same slot count and the same multiset of        *)
(* statements, in any order and in any split into blocks, end the walk in  *)
(* the same partition and return the same escaping slots.                  *)
(***************************************************************************)
Reordered(stmts) ==
    {[i \in 1 .. Len(stmts) |-> stmts[p[i]]] : p \in Permutations(1 .. Len(stmts))}

Splits(stmts) ==
    {<<stmts>>} \cup
    {<<SubSeq(stmts, 1, c), SubSeq(stmts, c + 1, Len(stmts))>> : c \in 0 .. Len(stmts)}

Rearranged(m) ==
    {Procedure(m.local_decls, b) :
        b \in UNION {Splits(g) : g \in Reordered(super_mir(m.basic_blocks))}}

C4_OrderIndependent ==
    pc = "done" =>
        \A m \in Rearranged(mir) :
            /\ find_escaping_locals(m) = escaping_locals
            /\ Partition(visit_mir(m)) = Partition(unification_table)

C4_Witness ==
    /\ pc = "done"
    /\ Len(mir.basic_blocks) > 1
    /\ Statements = <<MoveStmt(2, 1), MoveStmt(1, 2), MoveStmt(0, 1)>>
    /\ escaping_locals = <<1, 2>>

(***************************************************************************)
(* C10: from the first visited statement on the union-find holds one key   *)
(* per declared slot, and two slots once in the same set stay in the same  *)
(* set, so the slots sharing a set with slot 0 only grow.                  *)
(***************************************************************************)
C10_KeysFixedMergesMonotonic ==
    /\ [](pc \in {"walk", "query", "done"} =>
            Len(unification_table) = mir.local_decls)
    /\ [][pc # "keys" =>
            /\ Len(unification_table') = Len(unification_table)
            /\ \A a \in Keys(unification_table) : \A b \in Keys(unification_table) :
                  unioned(unification_table, a, b) => unioned(unification_table', a, b)]_vars

C10_Witness ==
    /\ pc = "walk"
    /\ visited = 2
    /\ visited < Len(Statements)
    /\ Cardinality(Partition(unification_table)) = mir.local_decls - 2

(***************************************************************************)
(* The statement visit_assign is about to visit, and the one it visited    *)
(* last.                                                                   *)
(***************************************************************************)
AtAssign ==
    /\ pc = "walk"
    /\ visited < Len(Statements)
    /\ Statements[visited + 1].kind = "Assign"

Current == Statements[visited + 1]

AfterAssign ==
    /\ pc = "walk"
    /\ visited >= 1
    /\ Statements[visited].kind = "Assign"

Last == Statements[visited]

\* the slots in a's set once the sets of the table are joined along the pairs
JoinedAfter(table, pairs, a) ==
    ConnectedTo({a}, {q \in Keys(table) \X Keys(table) : unioned(table, q[1], q[2])}
                     \cup pairs)

CopyStmt(d, s) == StatementAssign(PlaceLocal(d), RvalueUse(OperandCopy(PlaceLocal(s))))

(***************************************************************************)
(* C5: an operand is a flow source only when it is a Move of a location    *)
(* rooted in a slot: d = Use(Copy(loc)) and d = Use(Constant) leave the    *)
(* partition unchanged, so `0 = copy 1` alone does not report slot 1,      *)
(* whereas `0 = move 1` does.                                              *)
(***************************************************************************)
C5_OnlyMovesAreSources ==
    /\ [][(AtAssign /\ Current.rvalue.tag = "Use") =>
            IF /\ Current.rvalue.op.tag = "Move"
               /\ BaseSlot(Current.rvalue.op.place) # {}
               /\ BaseSlot(Current.place) # {}
            THEN \A d \in BaseSlot(Current.place) :
                     \A s \in BaseSlot(Current.rvalue.op.place) :
                         unioned(unification_table', d, s)
            ELSE Partition(unification_table') = Partition(unification_table)]_vars
    /\ [](pc = "done" /\ Statements = <<CopyStmt(0, 1)>> => escaping_locals = <<>>)
    /\ [](pc = "done" /\ Statements = <<MoveStmt(0, 1)>> => escaping_locals = <<1>>)

C5_Witness ==
    /\ AfterAssign
    /\ Last.rvalue.tag = "Use"
    /\ Last.rvalue.op.tag = "Copy"
    /\ BaseSlot(Last.place) = {0}
    /\ BaseSlot(Last.rvalue.op.place) = {1}
    /\ ~unioned(unification_table, 0, 1)

(***************************************************************************)
(* C6: after d = Aggregate(_, ops), d shares a set with the slot of every  *)
(* element that is a resolvable Move, whatever the other elements are, and *)
(* the other elements join nothing: `0 = Aggregate(move 1, copy 2,         *)
(* move 3)` reports 1 and 3 but not 2.                                     *)
(***************************************************************************)
AggregateExample ==
    StatementAssign(PlaceLocal(0),
        RvalueAggregate(<<OperandMove(PlaceLocal(1)), OperandCopy(PlaceLocal(2)),
                          OperandMove(PlaceLocal(3))>>))

C6_AggregateElementsIndependent ==
    /\ [][(AtAssign /\ Current.rvalue.tag = "Aggregate") =>
            /\ \A d \in BaseSlot(Current.place) :
                   \A i \in 1 .. Len(Current.rvalue.ops) :
                       \A s \in MovedSlot(Current.rvalue.ops[i]) :
                           unioned(unification_table', d, s)
            /\ \A a \in Keys(unification_table) : \A b \in Keys(unification_table) :
                   unioned(unification_table', a, b) <=>
                       b \in JoinedAfter(unification_table, TrackedPairs(Current), a)]_vars
    /\ [](pc = "done" /\ Statements = <<AggregateExample>> => escaping_locals = <<1, 3>>)

C6_Witness ==
    /\ pc = "done"
    /\ Statements = <<AggregateExample>>
    /\ escaping_locals = <<1, 3>>

(***************************************************************************)
(* C7: a Cast of a kind other than Unsize, and every expression form other *)
(* than Use, Reference, Cast and Aggregate, leaves the partition unchanged *)
(* whatever its destination and operands are, so `0 = Cast(Misc, move 1)`  *)
(* does not report slot 1; d = Cast(Unsize, move s) puts d and s in the    *)
(* same set.                                                               *)
(***************************************************************************)
MiscCastExample ==
    StatementAssign(PlaceLocal(0), RvalueCast("Misc", OperandMove(PlaceLocal(1))))

C7_OnlyUnsizeCastsTracked ==
    /\ [][(AtAssign /\ Current.rvalue.tag \notin {"Use", "Ref", "Aggregate"}) =>
            IF /\ Current.rvalue.tag = "Cast"
               /\ Current.rvalue.kind = "Unsize"
               /\ MovedSlot(Current.rvalue.op) # {}
               /\ BaseSlot(Current.place) # {}
            THEN \A d \in BaseSlot(Current.place) :
                     \A s \in MovedSlot(Current.rvalue.op) :
                         unioned(unification_table', d, s)
            ELSE Partition(unification_table') = Partition(unification_table)]_vars
    /\ [](pc = "done" /\ Statements = <<MiscCastExample>> => escaping_locals = <<>>)

C7_Witness ==
    /\ AfterAssign
    /\ Last.rvalue.tag = "Cast"
    /\ Last.rvalue.kind # "Unsize"
    /\ BaseSlot(Last.place) = {0}
    /\ MovedSlot(Last.rvalue.op) = {1}
    /\ ~unioned(unification_table, 0, 1)

(***************************************************************************)
(* C8: the run never fails and never stops short of returning, and it      *)
(* returns the empty sequence, having performed no union, whenever the     *)
(* procedure has no assignment, declares only the return slot, or assigns  *)
(* only to locations rooted in no slot.                                    *)
(***************************************************************************)
NoFlowCase ==
    \/ \A i \in 1 .. Len(Statements) : Statements[i].kind # "Assign"
    \/ mir.local_decls = 1
    \/ \A i \in 1 .. Len(Statements) :
          Statements[i].kind = "Assign" => BaseSlot(Statements[i].place) = {}

C8_TotalAndEmptyWithoutFlow ==
    /\ pc # "panic"
    /\ pc # "done" => ENABLED Next
    /\ NoFlowCase =>
          /\ \A k \in Keys(unification_table) : unification_table[k + 1].parent = k
          /\ escaping_locals = <<>>

C8_Witness ==
    /\ pc = "done"
    /\ mir.local_decls >= 2
    /\ \E i \in 1 .. Len(Statements) :
          /\ Statements[i].kind = "Assign"
          /\ FlowSources(Statements[i].rvalue) = {1}
    /\ \A i \in 1 .. Len(Statements) :
          Statements[i].kind = "Assign" /\ BaseSlot(Statements[i].place) = {}
    /\ escaping_locals = <<>>

(***************************************************************************)
(* C9: locations are resolved to their base slot through any chain of      *)
(* projections on both sides: after dest = Reference(_, loc), with dest    *)
(* rooted in slot d and loc in slot s, d and s share a set, whatever the   *)
(* projection depth and the reference kind; if either is rooted in no slot *)
(* the partition is unchanged.                                             *)
(***************************************************************************)
C9_ReferenceJoinsBaseSlots ==
    [][(AtAssign /\ Current.rvalue.tag = "Ref") =>
          IF BaseSlot(Current.place) # {} /\ BaseSlot(Current.rvalue.place) # {}
          THEN \A d \in BaseSlot(Current.place) :
                   \A s \in BaseSlot(Current.rvalue.place) :
                       unioned(unification_table', d, s)
          ELSE Partition(unification_table') = Partition(unification_table)]_vars

C9_Witness ==
    /\ AfterAssign
    /\ Len(Statements) = 1
    /\ Last.rvalue.tag = "Ref"
    /\ Last.place = PlaceProjection(PlaceProjection(PlaceLocal(2)))
    /\ Last.rvalue.place = PlaceProjection(PlaceLocal(1))
    /\ unioned(unification_table, 2, 1)
    /\ ~unioned(unification_table, 0, 1)

====
